---- MODULE Spec2Model ----
(***************************************************************************)
(* The page-content bridge of the webAi extension: DomBridge (domToJson,   *)
(* _shorten, _flatten and the id -> path index) and the content script's   *)
(* two document mutations, highlightOnPage and autofillForm.               *)
(*                                                                         *)
(* Strings are sequences of one-character strings.  A live document is a   *)
(* tree of nodes of one record shape; a text node has tag "#text".         *)
(***************************************************************************)
EXTENDS Integers, Sequences, FiniteSets, TLC

VARIABLES
    doc,            \* document.body, the live tree
    bodyJson,       \* DomBridge._bodyJson
    miniBodyJson,   \* DomBridge._miniBodyJson
    flatContent,    \* DomBridge._flatContent
    idPathMap,      \* DomBridge._idPathMap
    threw,          \* the last DomBridge call ended in a TypeError
    highlightedCount, \* the result of the last highlightOnPage
    filledCount,    \* the result of the last autofillForm
    events,         \* the events the last autofillForm dispatched, in order
    op,             \* the last operation that ran
    passNo,         \* history: the number of highlightOnPage calls so far
    fillNo,         \* history: the number of autofillForm calls so far
    lastArg,        \* history: the argument of the last call
    reqLog,         \* history: what each request of the last call did
    prevDoc,        \* history: the document before the last call
    doc0,           \* history: the document before the first call
    resolved,       \* the result of the last getElementById
    removedIds,     \* history: indexed ids whose element the page removed
    staleIds,       \* history: removedIds at the last compaction after it
    dirty,          \* history: the page changed since the last compaction
    failed,         \* the last content-script call raised
    nullArg,        \* history: the argument of the last call was null
    db,             \* WebAIContentScript.db: "bridge" (a DomBridge) or "null"
    inbox,          \* history: the actions of the messages delivered, in order
    microtasks,     \* the promise reactions queued, first in first out
    tasks,          \* the timer callbacks queued, first in first out
    sent,           \* history: the messages sendResponse was called for, in order
    pending,        \* the messages whose listener returned true, not answered yet
    pops            \* history: the number of popstate events so far

bridgeVars == <<bodyJson, miniBodyJson, flatContent, idPathMap, threw>>
highlightVars == <<highlightedCount, passNo, reqLog>>
autofillVars == <<filledCount, events, fillNo>>
historyVars == <<lastArg, prevDoc, doc0>>
resolveVars == <<resolved, removedIds, staleIds, dirty>>
callVars == <<failed, nullArg>>
messageVars == <<db, inbox, microtasks, tasks, sent, pending, pops>>
vars == <<doc, bridgeVars, highlightVars, autofillVars, historyVars, resolveVars,
          callVars, op, messageVars>>

\* The content script after setup with nothing delivered and nothing queued.
IdleScript ==
    /\ db = "bridge" /\ inbox = <<>> /\ microtasks = <<>> /\ tasks = <<>>
    /\ sent = <<>> /\ pending = {} /\ pops = 0

(***************************************************************************)
(* Bounds of the model.                                                    *)
(***************************************************************************)
\* Elements below <body> in a document the bridge captures.
MaxNodes == 2
\* Child nodes of <body> in a document that is highlighted.
MaxKids == 2
\* Requests in one highlightOnPage call.
MaxReqs == 2
\* highlightOnPage calls in one behaviour.
MaxPasses == 2
\* Elements (forms and fields) below <body> in a document that is filled.
MaxFormNodes == 4
\* Entries of the mapping one autofillForm call is given.
MaxEntries == 2
\* autofillForm calls in one behaviour.
MaxFills == 1
\* Distinct values of a random id.
MaxIds == 3

(***************************************************************************)
(* Strings.                                                                *)
(***************************************************************************)
Last(s) == s[Len(s)]
Front(s) == SubSeq(s, 1, Len(s) - 1)

\* The characters String.prototype.trim strips.
IsSpace(c) == c \in {" ", "\n"}

RECURSIVE TrimStart(_)
TrimStart(s) ==
    IF s # <<>> /\ IsSpace(Head(s)) THEN TrimStart(Tail(s)) ELSE s

RECURSIVE TrimEnd(_)
TrimEnd(s) ==
    IF s # <<>> /\ IsSpace(Last(s)) THEN TrimEnd(Front(s)) ELSE s

Trim(s) == TrimEnd(TrimStart(s))

\* Array.prototype.join: the strings of `parts` with `sep` between them.
RECURSIVE Join(_, _)
Join(parts, sep) ==
    IF parts = <<>> THEN <<>>
    ELSE IF Len(parts) = 1 THEN parts[1]
    ELSE parts[1] \o sep \o Join(Tail(parts), sep)

(***************************************************************************)
(* The live tree.                                                          *)
(***************************************************************************)
TextNode(s) ==
    [tag |-> "#text", data |-> s, kids |-> <<>>, mark |-> 0,
     name |-> <<>>, placeholder |-> <<>>, id |-> <<>>, value |-> <<>>]

Elem(t, ks) ==
    [tag |-> t, data |-> <<>>, kids |-> ks, mark |-> 0,
     name |-> <<>>, placeholder |-> <<>>, id |-> <<>>, value |-> <<>>]

IsText(n) == n.tag = "#text"
IsElement(n) == n.tag # "#text"

\* Element.children: the element children, in order.
Children(el) == SelectSeq(el.kids, IsElement)

\* Element.childNodes filtered to the text nodes.
TextNodes(el) == SelectSeq(el.kids, IsText)

(***************************************************************************)
(* Snapshot nodes.  A JavaScript object's missing key reads undefined:     *)
(* Undef for a string, NoPath for a path, 0 for i and id.                  *)
(***************************************************************************)
Undef == <<"undefined">>
NoPath == <<0>>
\* null where a position in the live tree is expected.
NoPos == <<0>>

\* domToJson's null result, and the initial value of DomBridge's fields.
Null ==
    [path |-> NoPath, tag |-> "null", text |-> Undef, childs |-> <<>>,
     i |-> 0, html |-> Undef, value |-> Undef, id |-> 0]


(***************************************************************************)
(* TreeCapture: domToJson.                                                 *)
(***************************************************************************)
\* String.prototype.toLowerCase on Element.tagName (upper case in the live
\* tree of an HTML document).
ToLowerCase(t) ==
    CASE t = "BODY" -> "body"
      [] t = "DIV" -> "div"
      [] t = "SCRIPT" -> "script"
      [] t = "INPUT" -> "input"
      [] t = "TEXTAREA" -> "textarea"
      [] t = "FORM" -> "form"
      [] t = "SPAN" -> "span"
      [] OTHER -> t

\* Line 16: the trimmed text nodes joined by "\n", trimmed.
DirectText(element) ==
    LET tn == TextNodes(element)
    IN Trim(Join([k \in 1..Len(tn) |-> Trim(tn[k].data)], <<"\n">>))

\* Line 23 with the test left out: no child is skipped.
SkipNoChild(child) == FALSE

\* Line 23: the child is skipped, its ordinal i already counted.
SkipChild(child) == ToLowerCase(child.tag) = "script"

\* Element.outerHTML of an input, as one token.
OuterHTMLOfInput(element) == <<"<input>">>

NotNull(j) == j.tag # "null"

\* Lines 35-37 left out: no node is pruned.
NeverPruned(json) == FALSE

\* Line 35: a deleted text is undefined, not "".
Pruned(json) == json.text = <<>> /\ Len(json.childs) = 0

\* Lines 20-22 with i counted after the script test: the ordinal of a
\* child among the children that are no script.
OrdinalAmongVisited(childElements, k) ==
    Cardinality({j \in 1..k : ~SkipChild(childElements[j])})

\* Lines 20-22: i is incremented for every element child, before any test.
Ordinal(childElements, k) == k

RECURSIVE domToJson(_, _)
domToJson(element, path) ==
    LET childElements == Children(element)
        visited == [k \in 1..Len(childElements) |->
                      IF SkipChild(childElements[k]) THEN Null
                      ELSE LET i == Ordinal(childElements, k)
                               childJson == domToJson(childElements[k], path \o <<i>>)
                           IN IF NotNull(childJson)
                              THEN [childJson EXCEPT !.i = i]
                              ELSE Null]
        json == [path |-> path, tag |-> ToLowerCase(element.tag),
                 text |-> DirectText(element),
                 childs |-> SelectSeq(visited, NotNull),
                 i |-> 0, html |-> Undef, value |-> Undef, id |-> 0]
        leaf == IF json.tag = "input"
                THEN [json EXCEPT !.text = Undef,
                                  !.html = OuterHTMLOfInput(element),
                                  !.value = element.value]
                ELSE json
    IN IF Pruned(leaf) THEN Null ELSE leaf

(***************************************************************************)
(* TreeCompactor: overrideJsonValues and DomBridge._shorten.               *)
(***************************************************************************)
\* for (const key in src) dst[key] = src[key]: only the keys src has.
overrideJsonValues(src, dst) ==
    [path |-> IF src.path # NoPath THEN src.path ELSE dst.path,
     tag |-> src.tag,
     text |-> IF src.text # Undef THEN src.text ELSE dst.text,
     childs |-> src.childs,
     i |-> IF src.i # 0 THEN src.i ELSE dst.i,
     html |-> IF src.html # Undef THEN src.html ELSE dst.html,
     value |-> IF src.value # Undef THEN src.value ELSE dst.value,
     id |-> IF src.id # 0 THEN src.id ELSE dst.id]

\* Lines 78-80 with the loop run once only.
SpliceOnce(json) ==
    IF json.text = <<>> /\ Len(json.childs) = 1
    THEN overrideJsonValues(json.childs[1], json)
    ELSE json

\* Lines 78-80 without the test of the text: every single-child node is
\* spliced.
RECURSIVE SpliceAnyText(_)
SpliceAnyText(json) ==
    IF Len(json.childs) = 1
    THEN SpliceAnyText(overrideJsonValues(json.childs[1], json))
    ELSE json

\* Lines 78-80: while the text is empty and there is one child, splice.
RECURSIVE Splice(_)
Splice(json) ==
    IF json.text = <<>> /\ Len(json.childs) = 1
    THEN Splice(overrideJsonValues(json.childs[1], json))
    ELSE json

\* The node at position pos (a sequence of indices into childs) of a tree.
RECURSIVE NodeAt(_, _)
NodeAt(tree, pos) ==
    IF pos = <<>> THEN tree ELSE NodeAt(tree.childs[Head(pos)], Tail(pos))

\* The tree with the node at pos replaced (the code mutates it in place).
RECURSIVE PutAt(_, _, _)
PutAt(tree, pos, node) ==
    IF pos = <<>> THEN node
    ELSE [tree EXCEPT !.childs[Head(pos)] = PutAt(@, Tail(pos), node)]

\* Lines 76-87.  stack holds the positions of the nodes pushed; rnd the
\* values crypto.randomUUID().substring(0,8) returns, in call order.
RECURSIVE ShortenLoop(_, _, _, _)
ShortenLoop(tree, stack, rnd, map) ==
    IF stack = <<>> THEN [tree |-> tree, map |-> map]
    ELSE LET pos == Last(stack)
             json == Splice(NodeAt(tree, pos))
             id == Head(rnd)
             done == [json EXCEPT !.id = id, !.path = NoPath, !.i = 0]
         IN ShortenLoop(PutAt(tree, pos, done),
                        Front(stack) \o [k \in 1..Len(json.childs) |-> pos \o <<k>>],
                        Tail(rnd),
                        (id :> json.path) @@ map)

RECURSIVE NodeCount(_)
NodeCount(json) ==
    IF json.childs = <<>> THEN 1
    ELSE LET RECURSIVE Sum(_)
             Sum(k) == IF k = 0 THEN 0 ELSE NodeCount(json.childs[k]) + Sum(k - 1)
         IN 1 + Sum(Len(json.childs))

\* The values crypto.randomUUID().substring(0,8) can return: 16^8 strings
\* in the code, MaxIds of them here.  Nothing keeps two draws apart, in one
\* call of _shorten or in two.
IdPool == 1..MaxIds

\* The sequences of n random ids.
IdDraws(n) == [1..n -> IdPool]

\* DomBridge's fields as one record, for the methods that chain.
Bridge ==
    [bodyJson |-> bodyJson, miniBodyJson |-> miniBodyJson,
     flatContent |-> flatContent, idPathMap |-> idPathMap, threw |-> FALSE]

\* Lines 65-68: _parse.  snap is domToJson(document.body) at the time of
\* the call; the document does not change while a method runs.
ParseB(b, snap) == [b EXCEPT !.bodyJson = snap]

\* Lines 69-89: _shorten.  structuredClone copies the snapshot; popping the
\* null root reads json.text of null, a TypeError.
ShortenB(b0, snap, rnd) ==
    LET b == IF ~NotNull(b0.bodyJson) THEN ParseB(b0, snap) ELSE b0
    IN IF ~NotNull(b.bodyJson)
       THEN [b EXCEPT !.idPathMap = <<>>, !.miniBodyJson = Null, !.threw = TRUE]
       ELSE LET r == ShortenLoop(b.bodyJson, << <<>> >>, rnd, <<>>)
            IN [b EXCEPT !.idPathMap = r.map, !.miniBodyJson = r.tree]

(***************************************************************************)
(* LeafFlattener: DomBridge._flatten.                                      *)
(***************************************************************************)
\* DomBridge._flatContent before the first _flatten.
NullFlat == << <<"null">> >>

\* Lines 96-102 with the work list read from its front: a queue in place of
\* the stack.
RECURSIVE FlattenFifo(_, _)
FlattenFifo(stack, out) ==
    IF stack = <<>> THEN out
    ELSE LET json == Head(stack)
         IN FlattenFifo(Tail(stack) \o json.childs,
                        IF json.text # <<>> THEN Append(out, json.text) ELSE out)

\* Lines 96-102.
RECURSIVE FlattenLoop(_, _)
FlattenLoop(stack, out) ==
    IF stack = <<>> THEN out
    ELSE LET json == Last(stack)
         IN FlattenLoop(Front(stack) \o json.childs,
                        IF json.text # <<>> THEN Append(out, json.text) ELSE out)

\* Lines 90-104 with line 95 left out: the texts are added to the sequence
\* of the call before.
FlattenKeepB(b0, snap, rnd) ==
    LET b == IF ~NotNull(b0.miniBodyJson) THEN ShortenB(ParseB(b0, snap), snap, rnd) ELSE b0
        old == IF b.flatContent = NullFlat THEN <<>> ELSE b.flatContent
    IN IF b.threw THEN b
       ELSE [b EXCEPT !.flatContent = FlattenLoop(<<b.miniBodyJson>>, old)]

\* Lines 90-104: _flatten.
FlattenB(b0, snap, rnd) ==
    LET b == IF ~NotNull(b0.miniBodyJson) THEN ShortenB(ParseB(b0, snap), snap, rnd) ELSE b0
    IN IF b.threw THEN b
       ELSE [b EXCEPT !.flatContent = FlattenLoop(<<b.miniBodyJson>>, <<>>)]

\* Lines 105-107: update.
UpdateB(b0, snap, rnd) ==
    LET b == ShortenB(ParseB(b0, snap), snap, rnd)
    IN IF b.threw THEN b ELSE FlattenB(b, snap, rnd)

\* The random ids one _shorten of snapshot `tree` draws: one per node that
\* survives the splicing.
DrawsFor(tree) ==
    IF ~NotNull(tree) THEN {<<>>}
    ELSE LET dry == ShortenLoop(tree, << <<>> >>, [k \in 1..NodeCount(tree) |-> k], <<>>)
         IN IdDraws(NodeCount(dry.tree))

\* History: a compaction after the page removed indexed elements makes
\* their ids stale.
NoteCompaction(ran) ==
    /\ staleIds' = IF ran THEN staleIds \cup removedIds ELSE staleIds
    /\ removedIds' = IF ran THEN {} ELSE removedIds
    /\ dirty' = IF ran THEN FALSE ELSE dirty

SetBridge(b) ==
    /\ bodyJson' = b.bodyJson
    /\ miniBodyJson' = b.miniBodyJson
    /\ flatContent' = b.flatContent
    /\ idPathMap' = b.idPathMap
    /\ threw' = b.threw

Parse ==
    /\ SetBridge(ParseB(Bridge, domToJson(doc, <<>>)))
    /\ op' = "parse"
    /\ NoteCompaction(FALSE)
    /\ UNCHANGED <<doc, highlightVars, autofillVars, historyVars, callVars, resolved>>
    /\ UNCHANGED messageVars

Shorten ==
    /\ LET snap == IF NotNull(bodyJson) THEN bodyJson ELSE domToJson(doc, <<>>)
       IN \E rnd \in DrawsFor(snap) : SetBridge(ShortenB(Bridge, snap, rnd))
    /\ op' = "shorten"
    /\ NoteCompaction(TRUE)
    /\ UNCHANGED <<doc, highlightVars, autofillVars, historyVars, callVars, resolved>>
    /\ UNCHANGED messageVars

Flatten ==
    /\ LET snap == IF NotNull(miniBodyJson) THEN Null ELSE domToJson(doc, <<>>)
       IN \E rnd \in DrawsFor(snap) : SetBridge(FlattenB(Bridge, snap, rnd))
    /\ op' = "flatten"
    /\ NoteCompaction(~NotNull(miniBodyJson))
    /\ UNCHANGED <<doc, highlightVars, autofillVars, historyVars, callVars, resolved>>
    /\ UNCHANGED messageVars

Update ==
    /\ LET snap == domToJson(doc, <<>>)
       IN \E rnd \in DrawsFor(snap) : SetBridge(UpdateB(Bridge, snap, rnd))
    /\ op' = "update"
    /\ NoteCompaction(TRUE)
    /\ UNCHANGED <<doc, highlightVars, autofillVars, historyVars, callVars, resolved>>
    /\ UNCHANGED messageVars

(***************************************************************************)
(* The documents the bridge is run on: a body with at most MaxNodes        *)
(* elements below it.  An element's text nodes come before its element     *)
(* children; an input has no children.                                     *)
(***************************************************************************)
BridgeTexts ==
    { <<>>,
      << TextNode(<<" ">>) >>,
      << TextNode(<<"a">>) >>,
      << TextNode(<<"a", " ">>), TextNode(<<" ", "b">>) >> }

Input(v) == [Elem("INPUT", <<>>) EXCEPT !.value = v]

RECURSIVE TreesOf(_)
RECURSIVE ForestsOf(_)
\* The element trees of exactly n elements.
TreesOf(n) ==
    {Elem("DIV", t \o f) : t \in BridgeTexts, f \in ForestsOf(n - 1)}
    \cup {Elem("SCRIPT", <<TextNode(<<"a">>)>> \o f) : f \in ForestsOf(n - 1)}
    \cup (IF n = 1 THEN {Input(<<"a">>)} ELSE {})

\* The sequences of element trees of exactly n elements in all.
ForestsOf(n) ==
    IF n = 0 THEN {<<>>}
    ELSE UNION {{<<t>> \o r : t \in TreesOf(k), r \in ForestsOf(n - k)} : k \in 1..n}

BridgeDocs ==
    UNION {{Elem("BODY", t \o f) : t \in BridgeTexts, f \in ForestsOf(n)} :
           n \in 0..MaxNodes}

InitBridge ==
    /\ doc \in BridgeDocs
    /\ bodyJson = Null
    /\ miniBodyJson = Null
    /\ flatContent = NullFlat
    /\ idPathMap = <<>>
    /\ threw = FALSE
    /\ op = "new"
    /\ highlightedCount = 0 /\ passNo = 0 /\ reqLog = <<>>
    /\ filledCount = 0 /\ events = <<>> /\ fillNo = 0
    /\ lastArg = <<>> /\ prevDoc = doc /\ doc0 = doc
    /\ resolved = NoPos /\ removedIds = {} /\ staleIds = {} /\ dirty = FALSE
    /\ failed = FALSE /\ nullArg = FALSE
    /\ IdleScript

NextBridge == Parse \/ Shorten \/ Flatten \/ Update

SpecBridge == InitBridge /\ [][NextBridge]_vars

(***************************************************************************)
(* Resolver: DomBridge.getElementByPath and getElementById, on a page     *)
(* that removes elements between the calls.  A path is the sequence of the *)
(* k of its '> *:nth-child(k)' steps from body.                            *)
(***************************************************************************)
\* Lines 108-110: document.querySelector(path); the position of the
\* element the steps lead to, null when a step has no k-th element child.
RECURSIVE QueryPath(_, _, _)
QueryPath(el, path, k) ==
    IF k > Len(path) THEN path
    ELSE IF path[k] > Len(Children(el)) THEN NoPos
         ELSE QueryPath(Children(el)[path[k]], path, k + 1)

getElementByPath(d, path) == QueryPath(d, path, 1)

\* Lines 111-113.  An id the index does not hold reads undefined, and
\* querySelector(undefined) looks for an element of tag "undefined": none.
getElementById(map, d, id) ==
    IF id \in DOMAIN map THEN getElementByPath(d, map[id]) ELSE NoPos

GetElementById ==
    /\ \E id \in IdPool :
         /\ resolved' = getElementById(idPathMap, doc, id)
         /\ lastArg' = <<id>>
    /\ op' = "resolve"
    /\ UNCHANGED <<doc, bridgeVars, highlightVars, autofillVars, prevDoc, doc0,
                   removedIds, staleIds, dirty, callVars>>
    /\ UNCHANGED messageVars

\* The paths of the elements below el.
RECURSIVE ElementPaths(_)
ElementPaths(el) ==
    UNION {{<<i>>} \cup {<<i>> \o p : p \in ElementPaths(Children(el)[i])} :
           i \in 1..Len(Children(el))}

\* The index in el.kids of the i-th element child of el.
KidIndex(el, i) ==
    CHOOSE k \in 1..Len(el.kids) :
        /\ IsElement(el.kids[k])
        /\ Len(SelectSeq(SubSeq(el.kids, 1, k), IsElement)) = i

\* Node.removeChild of the element at path.
RECURSIVE RemoveChildAt(_, _)
RemoveChildAt(el, path) ==
    LET k == KidIndex(el, Head(path))
    IN IF Len(path) = 1
       THEN [el EXCEPT !.kids = SubSeq(@, 1, k - 1) \o SubSeq(@, k + 1, Len(@))]
       ELSE [el EXCEPT !.kids[k] = RemoveChildAt(@, Tail(path))]

IsPrefix(p, q) == Len(p) <= Len(q) /\ SubSeq(q, 1, Len(p)) = p

\* The page removes one element, once between two compactions.  The ids
\* the index holds for it and for the elements below it are noted.
RemoveElement ==
    /\ ~dirty
    /\ \E pos \in ElementPaths(doc) :
         /\ doc' = RemoveChildAt(doc, pos)
         /\ removedIds' = {id \in DOMAIN idPathMap : IsPrefix(pos, idPathMap[id])}
    /\ dirty' = TRUE
    /\ op' = "remove"
    /\ UNCHANGED <<bridgeVars, highlightVars, autofillVars, historyVars,
                   resolved, staleIds, callVars>>
    /\ UNCHANGED messageVars

InitResolve == InitBridge

NextResolve == Update \/ RemoveElement \/ GetElementById

SpecResolve == InitResolve /\ [][NextResolve]_vars

(***************************************************************************)
(* Claims about the bridge.                                                *)
(***************************************************************************)
\* The positions of the nodes of a snapshot or compacted tree.
RECURSIVE Positions(_)
Positions(json) ==
    {<<>>} \cup UNION {{<<k>> \o p : p \in Positions(json.childs[k])} :
                       k \in 1..Len(json.childs)}

\* document.querySelector of a path: the element that path addresses.
RECURSIVE ElementAt(_, _)
ElementAt(el, path) ==
    IF path = <<>> THEN el ELSE ElementAt(Children(el)[Head(path)], Tail(path))

\* C1: after _shorten every node of the compacted tree has an id, distinct
\* nodes have distinct ids, and the index has exactly one entry per node.
C1_IdsDistinctIndexComplete ==
    NotNull(miniBodyJson) =>
        LET P == Positions(miniBodyJson)
        IN /\ \A p \in P : NodeAt(miniBodyJson, p).id # 0
           /\ \A p, q \in P :
                p # q => NodeAt(miniBodyJson, p).id # NodeAt(miniBodyJson, q).id
           /\ Cardinality(DOMAIN idPathMap) = Cardinality(P)

\* C2: no node of the compacted tree has empty text and exactly one child.
C2_NoEmptySingleChild ==
    NotNull(miniBodyJson) =>
        \A p \in Positions(miniBodyJson) :
            LET n == NodeAt(miniBodyJson, p)
            IN ~(n.text = <<>> /\ Len(n.childs) = 1)

\* C2's case: the root started a chain of two empty single-child nodes that
\* ends at an input, and _shorten has run on it.
C2_RootChainToInputShortened ==
    /\ op = "shorten"
    /\ NotNull(miniBodyJson)
    /\ bodyJson.text = <<>> /\ Len(bodyJson.childs) = 1
    /\ bodyJson.childs[1].text = <<>> /\ Len(bodyJson.childs[1].childs) = 1
    /\ bodyJson.childs[1].childs[1].tag = "input"
    /\ miniBodyJson.tag = "input"

\* C3: the snapshot holds no script node and no node whose path leads
\* through a script element of the live tree.
C3_NoScriptCaptured ==
    NotNull(bodyJson) =>
        \A p \in Positions(bodyJson) :
            LET n == NodeAt(bodyJson, p)
            IN /\ n.tag # "script"
               /\ \A k \in 1..Len(n.path) :
                    ToLowerCase(ElementAt(doc, SubSeq(n.path, 1, k)).tag) # "script"

\* C3's case: the captured body has a script child that itself holds an
\* element with text.
C3_ScriptWithContentParsed ==
    /\ op = "parse"
    /\ NotNull(bodyJson)
    /\ \E i \in 1..Len(Children(doc)) :
         /\ Children(doc)[i].tag = "SCRIPT"
         /\ \E j \in 1..Len(Children(Children(doc)[i])) :
              DirectText(Children(Children(doc)[i])[j]) # <<>>

\* The element has the tag and the directly contained text of the
\* snapshot or compacted node; an input node carries no text to compare.
SameTagAndText(el, node) ==
    /\ ToLowerCase(el.tag) = node.tag
    /\ node.tag # "input" => DirectText(el) = node.text

\* C13: the path of a captured child is its parent's path and one step k,
\* and the k-th element child of the parent's element in the live tree,
\* scripts and pruned siblings counted, is the element captured.
C13_PathStepCountsAllElementChildren ==
    NotNull(bodyJson) =>
        \A p \in Positions(bodyJson) :
            LET n == NodeAt(bodyJson, p)
            IN /\ getElementByPath(doc, n.path) # NoPos
               /\ SameTagAndText(ElementAt(doc, n.path), n)
               /\ p # <<>> =>
                    LET parent == NodeAt(bodyJson, Front(p))
                    IN /\ n.path = parent.path \o <<n.i>>
                       /\ n.i <= Len(Children(ElementAt(doc, parent.path)))

\* C13's case: the only captured child of body is its second element
\* child, after a script or after a pruned element.
C13_ChildAfterScriptOrPruned ==
    /\ op = "parse"
    /\ NotNull(bodyJson)
    /\ Len(bodyJson.childs) = 1 /\ bodyJson.childs[1].i = 2
    /\ bodyJson.childs[1].path = <<2>>

\* A node has text when its text field is there and is not "".
HasText(n) == n.text # Undef /\ n.text # <<>>

\* What the claim retains of the live tree: an element with direct text or
\* with a retained element child that is no script.
RECURSIVE Retained(_)
Retained(el) ==
    \/ DirectText(el) # <<>>
    \/ \E k \in 1..Len(Children(el)) :
         Children(el)[k].tag # "SCRIPT" /\ Retained(Children(el)[k])

\* The same with every input retained.
RECURSIVE RetainedOrInput(_)
RetainedOrInput(el) ==
    \/ el.tag = "INPUT"
    \/ DirectText(el) # <<>>
    \/ \E k \in 1..Len(Children(el)) :
         Children(el)[k].tag # "SCRIPT" /\ RetainedOrInput(Children(el)[k])

\* C14 as stated: every node of the snapshot has text or a child, and the
\* snapshot holds exactly the subtrees that have one of the two.
C14_EveryNodeHasTextOrChild ==
    op = "parse" =>
        /\ NotNull(bodyJson) <=> Retained(doc)
        /\ NotNull(bodyJson) =>
             \A p \in Positions(bodyJson) :
                 LET n == NodeAt(bodyJson, p)
                 IN HasText(n) \/ Len(n.childs) >= 1

\* C14 amended: every node that is no input has text or a child; an input
\* is always retained, without text and with its html and value; a subtree
\* with neither text nor input yields null and is no child of its parent.
C14_EveryNodeButInputHasTextOrChild ==
    op = "parse" =>
        /\ NotNull(bodyJson) <=> RetainedOrInput(doc)
        /\ NotNull(bodyJson) =>
             \A p \in Positions(bodyJson) :
                 LET n == NodeAt(bodyJson, p)
                     el == ElementAt(doc, n.path)
                 IN /\ NotNull(n)
                    /\ n.tag # "input" => (HasText(n) \/ Len(n.childs) >= 1)
                    /\ n.tag = "input" =>
                         (n.text = Undef /\ n.html # Undef /\ n.value = el.value)
                    /\ Len(n.childs) =
                         Cardinality({k \in 1..Len(Children(el)) :
                             /\ Children(el)[k].tag # "SCRIPT"
                             /\ RetainedOrInput(Children(el)[k])})

\* C14's case: the snapshot holds an input next to an element that was
\* pruned.
C14_InputKeptNextToPruned ==
    /\ op = "parse"
    /\ NotNull(bodyJson)
    /\ Len(Children(doc)) = 2 /\ Len(bodyJson.childs) = 1
    /\ bodyJson.childs[1].tag = "input"
    /\ \E k \in 1..2 : Children(doc)[k].tag = "DIV"

\* The elements of the live tree that hold text, outside every script.
RECURSIVE TextBearing(_)
TextBearing(el) ==
    (IF DirectText(el) # <<>> THEN {<<>>} ELSE {})
    \cup UNION {{<<k>> \o p : p \in TextBearing(Children(el)[k])} :
                k \in {j \in 1..Len(Children(el)) : Children(el)[j].tag # "SCRIPT"}}

\* The live tree holds an input outside every script.
RECURSIVE HoldsInput(_)
HoldsInput(el) ==
    \/ el.tag = "INPUT"
    \/ \E k \in 1..Len(Children(el)) :
         Children(el)[k].tag # "SCRIPT" /\ HoldsInput(Children(el)[k])

C16_FlatEntriesAreNonEmptyStrings ==
    flatContent # NullFlat =>
        \A k \in 1..Len(flatContent) :
            flatContent[k] # Undef /\ flatContent[k] # <<>>

\* C17: update and the compaction behind the miniBodyJson getter never
\* raise; a body that is pruned whole gives an empty flattened sequence.
C17_PipelineNeverRaises ==
    /\ ~threw
    /\ (op = "update" /\ ~RetainedOrInput(doc)) => flatContent = <<>>

\* The final node of the chain of empty single-child nodes that starts at
\* a snapshot node: the node itself when it starts no chain.
RECURSIVE ChainEnd(_)
ChainEnd(n) ==
    IF n.text = <<>> /\ Len(n.childs) = 1 THEN ChainEnd(n.childs[1]) ELSE n

\* The snapshot with every chain replaced by its final node.
RECURSIVE Collapsed(_)
Collapsed(n) ==
    [ChainEnd(n) EXCEPT !.childs = [k \in 1..Len(@) |-> Collapsed(@[k])]]

\* C23: every node of the compacted tree carries the tag, text, children
\* and html/value of the final node of the chain it replaces, and every
\* entry of the index holds, for a node that carries its id, the path of
\* that final node.
C23_SurvivorCarriesChainEnd ==
    (NotNull(miniBodyJson) /\ ~threw) =>
        LET want == Collapsed(bodyJson)
        IN /\ Positions(miniBodyJson) = Positions(want)
           /\ \A p \in Positions(want) :
                LET s == NodeAt(miniBodyJson, p)
                    n == NodeAt(want, p)
                IN /\ s.tag = n.tag /\ s.text = n.text
                   /\ s.html = n.html /\ s.value = n.value
           /\ \A id \in DOMAIN idPathMap :
                \E p \in Positions(want) :
                    /\ NodeAt(miniBodyJson, p).id = id
                    /\ idPathMap[id] = NodeAt(want, p).path

\* The texts of a compacted subtree in the order the claim gives: the
\* node's own non-empty text, then the subtrees of its children, the later
\* child first.
RECURSIVE LifoTexts(_), LaterFirst(_, _)
LifoTexts(n) ==
    (IF HasText(n) THEN <<n.text>> ELSE <<>>) \o LaterFirst(n.childs, Len(n.childs))

LaterFirst(kids, k) ==
    IF k = 0 THEN <<>> ELSE LifoTexts(kids[k]) \o LaterFirst(kids, k - 1)

StringEntries(seq) == SelectSeq(seq, LAMBDA t : t # Undef)

RECURSIVE PreOrder(_), PreOrderKids(_, _)
PreOrder(n) == <<n>> \o PreOrderKids(n.childs, 1)

PreOrderKids(kids, k) ==
    IF k > Len(kids) THEN <<>> ELSE PreOrder(kids[k]) \o PreOrderKids(kids, k + 1)

\* The non-empty texts of a tree, and the html and value of its input
\* leaves, both in document order.
TextsOf(n) ==
    LET all == PreOrder(n)
        kept == SelectSeq(all, HasText)
    IN [k \in 1..Len(kept) |-> kept[k].text]

InputsOf(n) ==
    LET all == PreOrder(n)
        kept == SelectSeq(all, LAMBDA x : x.html # Undef)
    IN [k \in 1..Len(kept) |-> <<kept[k].tag, kept[k].html, kept[k].value>>]

EmptySingleChild(n) == n.text = <<>> /\ Len(n.childs) = 1

\* C26: the compacted tree has the non-empty texts of the snapshot in the
\* same document order and all its input leaves, and the nodes it lacks are
\* as many as the snapshot's nodes with empty text and a single child.
C26_CompactionKeepsTextsAndInputs ==
    (NotNull(miniBodyJson) /\ ~threw) =>
        /\ TextsOf(miniBodyJson) = TextsOf(bodyJson)
        /\ InputsOf(miniBodyJson) = InputsOf(bodyJson)
        /\ NodeCount(miniBodyJson) + Len(SelectSeq(PreOrder(bodyJson), EmptySingleChild))
               = NodeCount(bodyJson)

\* A snapshot that holds a text, an input and an empty single-child node
\* was compacted: a node went and the text and the input stayed.
C26_ChainCollapsedNextToTextAndInput ==
    /\ op \in {"shorten", "update"} /\ ~threw /\ NotNull(miniBodyJson)
    /\ NodeCount(miniBodyJson) < NodeCount(bodyJson)
    /\ TextsOf(bodyJson) # <<>>
    /\ InputsOf(bodyJson) # <<>>

(***************************************************************************)
(* Claims about the resolver.                                              *)
(***************************************************************************)
\* C11: an id of an earlier compaction whose element the page removed
\* before a later compaction resolves to null.
C11_StaleIdResolvesToNull ==
    (op = "resolve" /\ lastArg[1] \in staleIds) => resolved = NoPos

\* C12: on a document unchanged since the last compaction, an indexed id
\* resolves to the element with the tag and text of every compacted node
\* that carries the id, and no other id resolves to that element.
C12_IdResolvesToItsElement ==
    (op = "resolve" /\ ~dirty /\ lastArg[1] \in DOMAIN idPathMap) =>
        /\ resolved # NoPos
        /\ \A p \in Positions(miniBodyJson) :
             NodeAt(miniBodyJson, p).id = lastArg[1] =>
                 SameTagAndText(ElementAt(doc, resolved), NodeAt(miniBodyJson, p))
        /\ \A other \in DOMAIN idPathMap \ {lastArg[1]} :
             getElementById(idPathMap, doc, other) # resolved

(***************************************************************************)
(* Highlighter: WebAIContentScript.highlightOnPage.                        *)
(*                                                                         *)
(* A marker is a span of class webai-highlight; its field mark holds the   *)
(* number of the call that created it (history, 0 for any other node).     *)
(* Page text and request texts are made of letters: no character that is   *)
(* markup in HTML or special in a regular expression.                      *)
(***************************************************************************)
IsMarker(n) == n.mark > 0

Marker(text, pass) ==
    [Elem("SPAN", IF text = <<>> THEN <<>> ELSE <<TextNode(text)>>) EXCEPT !.mark = pass]

\* Concatenation of a sequence of sequences.
RECURSIVE Concat(_)
Concat(ss) == IF ss = <<>> THEN <<>> ELSE Head(ss) \o Concat(Tail(ss))

\* Node.textContent.
RECURSIVE TextContent(_)
TextContent(n) ==
    IF IsText(n) THEN n.data
    ELSE Concat([k \in 1..Len(n.kids) |-> TextContent(n.kids[k])])

\* The node at position pos (a sequence of indices into kids).
RECURSIVE KidAt(_, _)
KidAt(n, pos) == IF pos = <<>> THEN n ELSE KidAt(n.kids[Head(pos)], Tail(pos))

\* The tree with the node at pos replaced.
RECURSIVE ReplaceAt(_, _, _)
ReplaceAt(n, pos, new) ==
    IF pos = <<>> THEN new
    ELSE [n EXCEPT !.kids[Head(pos)] = ReplaceAt(@, Tail(pos), new)]

\* Node.normalize: in the whole subtree, empty text nodes are removed and
\* adjacent text nodes merged.
RECURSIVE Normalize(_)
RECURSIVE NormalizeKids(_)
Normalize(n) == IF IsText(n) THEN n ELSE [n EXCEPT !.kids = NormalizeKids(n.kids)]

NormalizeKids(ks) ==
    IF ks = <<>> THEN <<>>
    ELSE LET h == Head(ks)
             rest == NormalizeKids(Tail(ks))
         IN IF ~IsText(h) THEN <<Normalize(h)>> \o rest
            ELSE IF h.data = <<>> THEN rest
            ELSE IF rest # <<>> /\ IsText(Head(rest))
                 THEN <<TextNode(h.data \o Head(rest).data)>> \o Tail(rest)
                 ELSE <<h>> \o rest

\* The positions, in document order, of the markers (kind "marker") or the
\* text nodes (kind "text") of n's subtree.
RECURSIVE PositionsWhere(_, _)
PositionsWhere(n, kind) ==
    (IF (kind = "marker" /\ IsMarker(n)) \/ (kind = "text" /\ IsText(n))
     THEN << <<>> >> ELSE <<>>) \o
    Concat([k \in 1..Len(n.kids) |->
              LET sub == PositionsWhere(n.kids[k], kind)
              IN [j \in 1..Len(sub) |-> <<k>> \o sub[j]]])

\* Lines 93-98 with the removal left out.
KeepHighlights(d) == d

\* Lines 93-98.  querySelectorAll lists the markers in document order, so
\* a marker is replaced before the markers nested in it, which then sit in
\* a detached subtree: the document changes as if each outermost marker,
\* in document order, were replaced by its textContent and its parent
\* normalized.
RECURSIVE RemoveHighlights(_)
RemoveHighlights(d) ==
    LET existing == PositionsWhere(d, "marker")
    IN IF existing = <<>> THEN d
       ELSE LET pos == Head(existing)
                parentPos == Front(pos)
                el == KidAt(d, pos)
                replaced == ReplaceAt(d, pos, TextNode(TextContent(el)))
            IN RemoveHighlights(
                 ReplaceAt(replaced, parentPos, Normalize(KidAt(replaced, parentPos))))

\* String.prototype.includes.
Includes(s, pat) ==
    \E k \in 0..(Len(s) - Len(pat)) : SubSeq(s, k + 1, k + Len(pat)) = pat

\* String.prototype.replace with a global regular expression of the
\* literal pat: every match, left to right, not overlapping.
RECURSIVE ReplaceAll(_, _, _)
ReplaceAll(s, pat, repl) ==
    IF pat = <<>>
    THEN repl \o (IF s = <<>> THEN <<>> ELSE <<Head(s)>> \o ReplaceAll(Tail(s), pat, repl))
    ELSE IF Len(s) < Len(pat) THEN s
    ELSE IF SubSeq(s, 1, Len(pat)) = pat
         THEN repl \o ReplaceAll(SubSeq(s, Len(pat) + 1, Len(s)), pat, repl)
         ELSE <<Head(s)>> \o ReplaceAll(Tail(s), pat, repl)

\* The start and end tags of highlightEl.outerHTML, one character each.
OpenTag == "<span class=webai-highlight>"
CloseTag == "</span>"

\* Lines 116-123 and highlightEl.outerHTML.
OuterHTMLOfMarker(text) == <<OpenTag>> \o text \o <<CloseTag>>

\* The index of the first c in s, or Len(s) + 1.
RECURSIVE IndexOfChar(_, _)
IndexOfChar(s, c) ==
    IF s = <<>> \/ Head(s) = c THEN 1 ELSE 1 + IndexOfChar(Tail(s), c)

\* The HTML fragment parser on text and marker spans.
RECURSIVE ParseFragment(_, _)
ParseFragment(s, pass) ==
    IF s = <<>> THEN <<>>
    ELSE IF Head(s) = OpenTag
         THEN LET close == IndexOfChar(s, CloseTag)
              IN <<Marker(SubSeq(s, 2, close - 1), pass)>> \o
                 ParseFragment(SubSeq(s, close + 1, Len(s)), pass)
         ELSE LET open == IndexOfChar(s, OpenTag)
              IN <<TextNode(SubSeq(s, 1, open - 1))>> \o
                 ParseFragment(SubSeq(s, open, Len(s)), pass)

\* The elements whose content the HTML parser reads as text, not markup.
IsRawText(el) == ToLowerCase(el.tag) \in {"script", "style", "textarea"}

\* The innerHTML setter: the children parsed from the markup.
SetInnerHTML(el, markup, pass) ==
    [el EXCEPT !.kids = IF IsRawText(el)
                        THEN (IF markup = <<>> THEN <<>> ELSE <<TextNode(markup)>>)
                        ELSE ParseFragment(markup, pass)]

\* Lines 112-134: the walk over the text nodes at positions todo, in
\* document order.  The result is the document, whether a text node was
\* rewritten, and the number of marker elements the rewriting created.
RECURSIVE Walk(_, _, _, _)
Walk(d, todo, text, pass) ==
    IF todo = <<>> THEN [doc |-> d, hit |-> FALSE, made |-> 0]
    ELSE LET node == KidAt(d, Head(todo))
             parentPos == Front(Head(todo))
             newText == ReplaceAll(node.data, text, OuterHTMLOfMarker(text))
             parent == SetInnerHTML(KidAt(d, parentPos), newText, pass)
         IN IF Includes(node.data, text) /\ newText # node.data
            THEN [doc |-> ReplaceAt(d, parentPos, parent),
                  hit |-> TRUE,
                  made |-> Len(SelectSeq(parent.kids, IsMarker))]
            ELSE Walk(d, Tail(todo), text, pass)

\* Lines 102-136: highlights.forEach.  log keeps, for each request, the
\* document before and after it, the markers it created and the count
\* after it.
RECURSIVE ForEachHighlight(_, _, _, _, _)
ForEachHighlight(d, highlights, count, pass, log) ==
    IF highlights = <<>> THEN [doc |-> d, count |-> count, log |-> log]
    ELSE LET text == Head(highlights)
             r == Walk(d, PositionsWhere(d, "text"), text, pass)
             c == IF r.hit THEN count + 1 ELSE count
         IN ForEachHighlight(r.doc, Tail(highlights), c, pass,
                Append(log, [text |-> text, before |-> d, after |-> r.doc,
                             made |-> r.made, count |-> c]))

\* The request texts, and the lists of them one call passes.
ReqTexts == { <<"a">>, <<"b">>, <<"a", "b">> }

RECURSIVE ListsOf(_, _)
ListsOf(S, n) ==
    IF n = 0 THEN {<<>>}
    ELSE ListsOf(S, n - 1) \cup {Append(l, x) : l \in ListsOf(S, n - 1), x \in S}

HighlightLists == ListsOf(ReqTexts, MaxReqs)

\* Lines 91-139.  Called with null (request.highlights missing), lines
\* 93-100 run and highlights.forEach at line 102 is a TypeError: the promise
\* is rejected and there is no result; highlightedCount is then the local
\* of line 100.
HighlightOnPage ==
    /\ passNo < MaxPasses
    /\ \/ \E highlights \in HighlightLists :
            LET r == ForEachHighlight(RemoveHighlights(doc), highlights, 0, passNo + 1, <<>>)
            IN /\ doc' = r.doc
               /\ highlightedCount' = r.count
               /\ reqLog' = r.log
               /\ lastArg' = highlights
               /\ failed' = FALSE /\ nullArg' = FALSE
       \/ /\ doc' = RemoveHighlights(doc)
          /\ highlightedCount' = 0
          /\ reqLog' = <<>>
          /\ lastArg' = <<>>
          /\ failed' = TRUE /\ nullArg' = TRUE
    /\ passNo' = passNo + 1
    /\ prevDoc' = doc
    /\ op' = "highlight"
    /\ UNCHANGED <<bridgeVars, autofillVars, doc0, resolveVars>>
    /\ UNCHANGED messageVars

\* The documents that are highlighted: the children of body are text
\* nodes, a div and a script holding text.
HighlightKids ==
    {TextNode(t) : t \in { <<"a">>, <<"b">>, <<"a", "a">>, <<"a", "b">> }}
    \cup {Elem("DIV", <<TextNode(t)>>) : t \in { <<"a">>, <<"b">> }}
    \cup {Elem("SCRIPT", <<TextNode(<<"a">>)>>)}

HighlightDocs == {Elem("BODY", ks) : ks \in ListsOf(HighlightKids, MaxKids)}

InitHighlight ==
    /\ doc \in HighlightDocs
    /\ bodyJson = Null /\ miniBodyJson = Null /\ flatContent = NullFlat
    /\ idPathMap = <<>> /\ threw = FALSE
    /\ op = "new"
    /\ highlightedCount = 0 /\ passNo = 0 /\ reqLog = <<>>
    /\ filledCount = 0 /\ events = <<>> /\ fillNo = 0
    /\ lastArg = <<>> /\ prevDoc = doc /\ doc0 = doc
    /\ resolved = NoPos /\ removedIds = {} /\ staleIds = {} /\ dirty = FALSE
    /\ failed = FALSE /\ nullArg = FALSE
    /\ IdleScript

NextHighlight == HighlightOnPage

SpecHighlight == InitHighlight /\ [][NextHighlight]_vars

(***************************************************************************)
(* Claims about highlightOnPage.                                           *)
(***************************************************************************)
MarkerCount(d) == Len(PositionsWhere(d, "marker"))

\* The number of matches of pat in s, left to right, not overlapping.
RECURSIVE Occurrences(_, _)
Occurrences(s, pat) ==
    IF Len(s) < Len(pat) THEN 0
    ELSE IF SubSeq(s, 1, Len(pat)) = pat
         THEN 1 + Occurrences(SubSeq(s, Len(pat) + 1, Len(s)), pat)
         ELSE Occurrences(Tail(s), pat)

\* The number of matches of pat in the text nodes of d.
OccurrencesIn(d, pat) ==
    LET tp == PositionsWhere(d, "text")
        RECURSIVE Sum(_)
        Sum(k) == IF k = 0 THEN 0
                  ELSE Occurrences(KidAt(d, tp[k]).data, pat) + Sum(k - 1)
    IN Sum(Len(tp))

\* The tags of the elements of d that are not markers, in document order.
RECURSIVE StructureOf(_)
StructureOf(n) ==
    IF IsText(n) THEN <<>>
    ELSE (IF IsMarker(n) THEN <<>> ELSE <<n.tag>>) \o
         Concat([k \in 1..Len(n.kids) |-> StructureOf(n.kids[k])])

\* C4: a call with one request whose text occurs more than once in the
\* text of the document leaves exactly one marker and returns 1.
C4_OnlyFirstOccurrenceMarked ==
    (op = "highlight" /\ Len(reqLog) = 1
       /\ OccurrencesIn(reqLog[1].before, reqLog[1].text) > 1)
    => (MarkerCount(doc) = 1 /\ highlightedCount = 1)

\* C5: after a call with requests, highlightOnPage([]) leaves the text
\* content of the document equal to the text content before the first call.
C5_EmptyPassRestoresText ==
    (op = "highlight" /\ passNo >= 2 /\ lastArg = <<>> /\ ~nullArg)
    => TextContent(doc) = TextContent(doc0)

\* C6: a call removes no element other than markers and no text: the
\* elements that are not markers and the text content are those of the
\* document before the call.
C6_OnlyMarkersRemoved ==
    op = "highlight"
    => (StructureOf(doc) = StructureOf(prevDoc)
        /\ TextContent(doc) = TextContent(prevDoc))

\* C7: every marker of the document was created by the last call, and the
\* first request of a call finds no marker in the document.
C7_MarkersFromLastPass ==
    /\ \A k \in 1..MarkerCount(doc) :
         KidAt(doc, PositionsWhere(doc, "marker")[k]).mark = passNo
    /\ reqLog # <<>> => MarkerCount(reqLog[1].before) = 0

\* C7's case: the second call found a marker nested in a marker, and left
\* markers of its own.
C7_NestedMarkersReplaced ==
    /\ passNo = 2
    /\ \E k \in 1..MarkerCount(prevDoc) :
         Len(PositionsWhere(KidAt(prevDoc, PositionsWhere(prevDoc, "marker")[k]), "marker")) > 1
    /\ MarkerCount(doc) > 0

\* C8: every request of the call is processed; one whose text is in no
\* text node changes neither the document nor the count; and the count
\* returned is the number of requests that created a marker.
C8_NotFoundSkippedCountIsMarked ==
    op = "highlight" =>
        /\ Len(reqLog) = Len(lastArg)
        /\ \A k \in 1..Len(reqLog) :
             OccurrencesIn(reqLog[k].before, reqLog[k].text) = 0
             => /\ reqLog[k].after = reqLog[k].before
                /\ reqLog[k].made = 0
                /\ reqLog[k].count = (IF k = 1 THEN 0 ELSE reqLog[k - 1].count)
        /\ highlightedCount = Cardinality({k \in 1..Len(reqLog) : reqLog[k].made > 0})
        /\ highlightedCount <= Len(lastArg)

\* C27: after a call no marker of the document is inside another marker.
C27_NoMarkerInsideMarker ==
    op = "highlight" =>
        \A k \in 1..MarkerCount(doc) :
            Len(PositionsWhere(KidAt(doc, PositionsWhere(doc, "marker")[k]), "marker")) = 1

(***************************************************************************)
(* FormFiller: WebAIContentScript.autofillForm.                            *)
(*                                                                         *)
(* formData is the sequence Object.entries gives: [name, value] records    *)
(* with distinct names.  An attribute that is absent is <<>>.              *)
(***************************************************************************)
\* ASCII lower case of one character, as the selector flag i compares.
LowerChar(c) ==
    CASE c = "A" -> "a"
      [] c = "B" -> "b"
      [] c = "C" -> "c"
      [] OTHER -> c

Lower(s) == [k \in 1..Len(s) |-> LowerChar(s[k])]

\* Lines 148-155 in another order: by attribute first, then by tag.
SelectorsByAttribute(fieldName) ==
    << [tag |-> "input", attr |-> "name", val |-> fieldName],
       [tag |-> "textarea", attr |-> "name", val |-> fieldName],
       [tag |-> "input", attr |-> "placeholder", val |-> fieldName],
       [tag |-> "textarea", attr |-> "placeholder", val |-> fieldName],
       [tag |-> "input", attr |-> "id", val |-> fieldName],
       [tag |-> "textarea", attr |-> "id", val |-> fieldName] >>

\* Lines 148-155: the selectors tried for fieldName, in order.
Selectors(fieldName) ==
    << [tag |-> "input", attr |-> "name", val |-> fieldName],
       [tag |-> "input", attr |-> "placeholder", val |-> fieldName],
       [tag |-> "input", attr |-> "id", val |-> fieldName],
       [tag |-> "textarea", attr |-> "name", val |-> fieldName],
       [tag |-> "textarea", attr |-> "placeholder", val |-> fieldName],
       [tag |-> "textarea", attr |-> "id", val |-> fieldName] >>

\* tag[attr*="val" i]: the attribute contains val, compared without case;
\* an empty val matches nothing.
MatchesSelector(el, sel) ==
    /\ ToLowerCase(el.tag) = sel.tag
    /\ sel.val # <<>>
    /\ Includes(Lower(el[sel.attr]), Lower(sel.val))

\* The positions of the descendants of the node at pos, in document order.
RECURSIVE DescendantsOf(_, _)
DescendantsOf(d, pos) ==
    LET n == KidAt(d, pos)
    IN Concat([k \in 1..Len(n.kids) |-> << pos \o <<k>> >> \o DescendantsOf(d, pos \o <<k>>)])

\* form.querySelector(selector): the first descendant that matches.
QuerySelector(d, formPos, sel) ==
    LET Hit(p) == MatchesSelector(KidAt(d, p), sel)
        hits == SelectSeq(DescendantsOf(d, formPos), Hit)
    IN IF hits = <<>> THEN NoPos ELSE Head(hits)

\* document.querySelector(selector) in place of form.querySelector.
QuerySelectorInDocument(d, formPos, sel) == QuerySelector(d, <<>>, sel)

\* Line 158.
FormQuerySelector(d, formPos, sel) == QuerySelector(d, formPos, sel)

\* document.querySelectorAll('body, form'): the whole document taken as a
\* form as well.
FormsAndBody(d) ==
    LET IsForm(p) == ToLowerCase(KidAt(d, p).tag) = "form"
    IN << <<>> >> \o SelectSeq(DescendantsOf(d, <<>>), IsForm)

\* document.querySelectorAll('form').
FormsOf(d) ==
    LET IsForm(p) == ToLowerCase(KidAt(d, p).tag) = "form"
    IN SelectSeq(DescendantsOf(d, <<>>), IsForm)

\* A test of the value that every value passes.
TruthyAlways(value) == TRUE

\* A test of the value against the empty string only: value !== "".
NotEmptyString(value) == value # <<>>

\* The value null of a mapping entry (as undefined, 0 and false: a value
\* that is no string and is falsy).
JsNull == <<"null">>

\* A value the test `field && value` takes as true.
Truthy(value) == value # <<>> /\ value # JsNull

\* Line 160 for a field the call has not assigned yet only: the first
\* assignment stays.
AssignOnce(st, field, value) ==
    IF \E k \in 1..Len(st.events) : st.events[k].target = field
    THEN st
    ELSE [st EXCEPT !.doc = ReplaceAt(@, field, [KidAt(@, field) EXCEPT !.value = value])]

\* Line 160: field.value = value.
Assign(st, field, value) ==
    [st EXCEPT !.doc = ReplaceAt(@, field, [KidAt(@, field) EXCEPT !.value = value])]

\* Lines 161-162: field.dispatchEvent.  The listeners run inside the call;
\* the event of the log carries what they can observe, the value of the
\* target, and as history the count so far, the form and the field name.
Dispatch(st, type, field, formPos, fieldName) ==
    [st EXCEPT !.events =
        Append(@, [type |-> type, target |-> field,
                   value |-> KidAt(st.doc, field).value,
                   count |-> st.filledCount,
                   form |-> formPos, name |-> fieldName])]

\* Lines 160-163 with the events dispatched before the assignment.
FillAfterDispatch(st, field, value, formPos, fieldName) ==
    LET s1 == Dispatch(st, "input", field, formPos, fieldName)
        s2 == Dispatch(s1, "change", field, formPos, fieldName)
        s3 == Assign(s2, field, value)
    IN [s3 EXCEPT !.filledCount = @ + 1]

\* Lines 160-163.
Fill(st, field, value, formPos, fieldName) ==
    LET s1 == Assign(st, field, value)
        s2 == Dispatch(s1, "input", field, formPos, fieldName)
        s3 == Dispatch(s2, "change", field, formPos, fieldName)
    IN [s3 EXCEPT !.filledCount = @ + 1]

\* Lines 157-166: the selectors are tried in order; the first whose match
\* exists, with a truthy value, is filled and ends the loop.
RECURSIVE TrySelectors(_, _, _, _, _)
TrySelectors(st, formPos, fieldName, value, k) ==
    IF k > Len(Selectors(fieldName)) THEN st
    ELSE LET field == FormQuerySelector(st.doc, formPos, Selectors(fieldName)[k])
         IN IF field # NoPos /\ Truthy(value)
            THEN Fill(st, field, value, formPos, fieldName)
            ELSE TrySelectors(st, formPos, fieldName, value, k + 1)

\* Lines 146-167: Object.entries(formData).forEach.
RECURSIVE ForEachEntry(_, _, _)
ForEachEntry(st, formPos, entries) ==
    IF entries = <<>> THEN st
    ELSE ForEachEntry(
           TrySelectors(st, formPos, Head(entries).name, Head(entries).value, 1),
           formPos, Tail(entries))

\* Lines 145-168: forms.forEach.
RECURSIVE ForEachForm(_, _, _)
ForEachForm(st, forms, formData) ==
    IF forms = <<>> THEN st
    ELSE ForEachForm(ForEachEntry(st, Head(forms), formData), Tail(forms), formData)

\* The field names and values of a mapping.
FieldNames == { <<>>, <<"a">>, <<"B">> }
FieldValues == { <<>>, JsNull, <<"x">>, <<"y">> }

\* The mappings of at most n entries: the names are distinct.
RECURSIVE FormDatas(_)
FormDatas(n) ==
    IF n = 0 THEN {<<>>}
    ELSE LET HasName(fd, nm) == \E k \in 1..Len(fd) : fd[k].name = nm
             prev == FormDatas(n - 1)
         IN prev \cup
            UNION {{Append(fd, e) :
                      e \in {x \in [name : FieldNames, value : FieldValues] :
                               ~HasName(fd, x.name)}} : fd \in prev}

FormDataSet == FormDatas(MaxEntries)

\* Lines 141-171.  Called with null (request.formData missing),
\* Object.entries(formData) at line 146 is a TypeError in the callback of
\* the first form; without a form the callback never runs and the call
\* returns { filledCount: 0 }.
AutofillForm ==
    /\ fillNo < MaxFills
    /\ fillNo' = fillNo + 1
    /\ \/ \E formData \in FormDataSet :
            LET r == ForEachForm([doc |-> doc, events |-> <<>>, filledCount |-> 0],
                                 FormsOf(doc), formData)
            IN /\ doc' = r.doc
               /\ events' = r.events
               /\ filledCount' = r.filledCount
               /\ lastArg' = formData
               /\ failed' = FALSE /\ nullArg' = FALSE
       \/ /\ doc' = doc
          /\ events' = <<>>
          /\ filledCount' = 0
          /\ lastArg' = <<>>
          /\ failed' = (FormsOf(doc) # <<>>) /\ nullArg' = TRUE
    /\ prevDoc' = doc
    /\ op' = "autofill"
    /\ UNCHANGED <<bridgeVars, highlightVars, doc0, resolveVars>>
    /\ UNCHANGED messageVars

\* The fields of the documents that are filled.
Field(t, nm, ph, id) ==
    [Elem(t, <<>>) EXCEPT !.name = nm, !.placeholder = ph, !.id = id]

Fields ==
    { Field("INPUT", <<"c", "a">>, <<>>, <<>>),
      Field("INPUT", <<>>, <<"A", "b">>, <<>>),
      Field("INPUT", <<>>, <<>>, <<"b">>),
      Field("TEXTAREA", <<"a">>, <<>>, <<>>),
      Field("INPUT", <<"c">>, <<>>, <<>>) }

\* The sequences of exactly n fields.
RECURSIVE FieldSeqs(_)
FieldSeqs(n) ==
    IF n = 0 THEN {<<>>}
    ELSE {Append(fs, f) : fs \in FieldSeqs(n - 1), f \in Fields}

\* A field outside every form.
LooseFields == { Field("INPUT", <<"c", "a">>, <<>>, <<>>) }

\* The sequences of forms and loose fields of exactly n elements in all.
RECURSIVE FormKids(_)
FormKids(n) ==
    IF n = 0 THEN {<<>>}
    ELSE {<<f>> \o r : f \in LooseFields, r \in FormKids(n - 1)}
         \cup UNION {{<<Elem("FORM", fs)>> \o r :
                        fs \in FieldSeqs(k - 1), r \in FormKids(n - k)} : k \in 1..n}

AutofillDocs == UNION {{Elem("BODY", ks) : ks \in FormKids(n)} : n \in 0..MaxFormNodes}

InitAutofill ==
    /\ doc \in AutofillDocs
    /\ bodyJson = Null /\ miniBodyJson = Null /\ flatContent = NullFlat
    /\ idPathMap = <<>> /\ threw = FALSE
    /\ op = "new"
    /\ highlightedCount = 0 /\ passNo = 0 /\ reqLog = <<>>
    /\ filledCount = 0 /\ events = <<>> /\ fillNo = 0
    /\ lastArg = <<>> /\ prevDoc = doc /\ doc0 = doc
    /\ resolved = NoPos /\ removedIds = {} /\ staleIds = {} /\ dirty = FALSE
    /\ failed = FALSE /\ nullArg = FALSE
    /\ IdleScript

NextAutofill == AutofillForm

SpecAutofill == InitAutofill /\ [][NextAutofill]_vars

(***************************************************************************)
(* Claims about autofillForm.                                              *)
(***************************************************************************)
\* A value the claims call empty: the empty string or null.
EmptyValue(value) == value = <<>> \/ value = JsNull

\* attr contains fieldName, letters compared without case.
ContainsNoCase(attr, fieldName) ==
    \E k \in 0..(Len(attr) - Len(fieldName)) :
        \A j \in 1..Len(fieldName) : LowerChar(attr[k + j]) = LowerChar(fieldName[j])

\* el is an input or textarea whose name, placeholder or id contains
\* fieldName.
FieldMatches(el, fieldName) ==
    /\ el.tag \in {"INPUT", "TEXTAREA"}
    /\ \/ ContainsNoCase(el.name, fieldName)
       \/ ContainsNoCase(el.placeholder, fieldName)
       \/ ContainsNoCase(el.id, fieldName)

\* The elements of d below the element at pos.
Below(d, pos) == {DescendantsOf(d, pos)[k] : k \in 1..Len(DescendantsOf(d, pos))}

FormSet(d) == {p \in Below(d, <<>>) : KidAt(d, p).tag = "FORM"}

\* The (form, entry) pairs of the claim: the value is not empty and the
\* form contains a field that matches the name.
MatchingPairs(d, formData) ==
    {pr \in FormSet(d) \X (1..Len(formData)) :
        /\ ~EmptyValue(formData[pr[2]].value)
        /\ \E p \in Below(d, pr[1]) : FieldMatches(KidAt(d, p), formData[pr[2]].name)}

\* The fills of the last call: its "input" events.
Fills == SelectSeq(events, LAMBDA e : e.type = "input")

\* Exactly one element of the form received the value for the pair.
FilledOnce(pr) ==
    \E k \in 1..Len(Fills) :
        /\ Fills[k].form = pr[1] /\ Fills[k].name = lastArg[pr[2]].name
        /\ Fills[k].target \in Below(prevDoc, pr[1])
        /\ FieldMatches(KidAt(prevDoc, Fills[k].target), lastArg[pr[2]].name)
        /\ Fills[k].value = lastArg[pr[2]].value
        /\ \A j \in 1..Len(Fills) :
             (Fills[j].form = pr[1] /\ Fills[j].name = lastArg[pr[2]].name) => j = k

\* C9 as stated: filledCount is the number of (form, fieldName) pairs with
\* a value that is not empty and a field of the form that contains
\* fieldName, and each such pair filled exactly one element.
C9_CountIsMatchingPairs ==
    op = "autofill" =>
        /\ filledCount = Cardinality(MatchingPairs(prevDoc, lastArg))
        /\ \A pr \in MatchingPairs(prevDoc, lastArg) : FilledOnce(pr)

\* C9 amended: the same for the pairs whose fieldName is not empty; nothing
\* else is filled.
C9_CountIsMatchingPairsOfNonEmptyNames ==
    op = "autofill" =>
        LET pairs == {pr \in MatchingPairs(prevDoc, lastArg) : lastArg[pr[2]].name # <<>>}
        IN /\ filledCount = Cardinality(pairs)
           /\ \A pr \in pairs : FilledOnce(pr)
           /\ Len(Fills) = Cardinality(pairs)

\* C9's case: one field name was filled in two forms, in one of them in a
\* field whose name only contains it.
C9_OneNameFilledInTwoForms ==
    /\ op = "autofill"
    /\ filledCount >= 2
    /\ \E i, j \in 1..Len(Fills) :
         /\ Fills[i].name = <<"a">> /\ Fills[j].name = <<"a">>
         /\ Fills[i].form # Fills[j].form
         /\ KidAt(doc, Fills[i].target).name = <<"c", "a">>

\* C10: when no form holds a field that matches a name of the mapping, the
\* call returns 0, dispatches no event and leaves the document as it was.
C10_NoMatchNoChange ==
    (op = "autofill"
       /\ \A f \in FormSet(prevDoc) : \A k \in 1..Len(lastArg) :
            \A p \in Below(prevDoc, f) : ~FieldMatches(KidAt(prevDoc, p), lastArg[k].name))
    => (filledCount = 0 /\ events = <<>> /\ doc = prevDoc)

\* C10's case: a form with a field, a matching field outside every form,
\* and a mapping with a value for a name no field of a form matches.
C10_OnlyLooseFieldMatches ==
    /\ op = "autofill"
    /\ \E f \in FormSet(prevDoc) : Below(prevDoc, f) # {}
    /\ \A f \in FormSet(prevDoc) : \A k \in 1..Len(lastArg) :
         \A p \in Below(prevDoc, f) : ~FieldMatches(KidAt(prevDoc, p), lastArg[k].name)
    /\ \E k \in 1..Len(lastArg) :
         /\ ~EmptyValue(lastArg[k].value)
         /\ \E p \in Below(prevDoc, <<>>) : FieldMatches(KidAt(prevDoc, p), lastArg[k].name)

\* The priority of the claim: input by name, by placeholder, by id, then
\* textarea by name, by placeholder, by id.
PriorityTags == <<"INPUT", "INPUT", "INPUT", "TEXTAREA", "TEXTAREA", "TEXTAREA">>
PriorityAttrs == <<"name", "placeholder", "id", "name", "placeholder", "id">>

\* The elements of form f that the k-th selector matches for fieldName; a
\* selector made from an empty fieldName has no match.
HitsOf(d, f, k, fieldName) ==
    {p \in Below(d, f) :
        /\ KidAt(d, p).tag = PriorityTags[k]
        /\ fieldName # <<>>
        /\ ContainsNoCase(KidAt(d, p)[PriorityAttrs[k]], fieldName)}

\* The place of p among the descendants of f in document order.
DocIndex(d, f, p) ==
    CHOOSE i \in 1..Len(DescendantsOf(d, f)) : DescendantsOf(d, f)[i] = p

\* The first match, in document order, of the first selector with a match.
ChosenFor(d, f, fieldName) ==
    LET ks == {k \in 1..6 : HitsOf(d, f, k, fieldName) # {}}
    IN IF ks = {} THEN NoPos
       ELSE LET k == CHOOSE j \in ks : \A i \in ks : j <= i
            IN CHOOSE p \in HitsOf(d, f, k, fieldName) :
                 \A q \in HitsOf(d, f, k, fieldName) :
                     DocIndex(d, f, p) <= DocIndex(d, f, q)

\* The fills of the last call for form f and the k-th entry.
FillsFor(f, k) ==
    SelectSeq(Fills, LAMBDA e : e.form = f /\ e.name = lastArg[k].name)

\* C20: for a form and a fieldName with a value, the element filled is the
\* first match in document order of the first selector, in the priority,
\* that has a match; nothing else is filled for that form and fieldName,
\* and an element that is no target keeps its value.
C20_FilledBySelectorPriority ==
    op = "autofill" =>
        /\ \A f \in FormSet(prevDoc) : \A k \in 1..Len(lastArg) :
             LET chosen == ChosenFor(prevDoc, f, lastArg[k].name)
             IN IF chosen # NoPos /\ ~EmptyValue(lastArg[k].value)
                THEN /\ Len(FillsFor(f, k)) = 1
                     /\ FillsFor(f, k)[1].target = chosen
                     /\ FillsFor(f, k)[1].value = lastArg[k].value
                ELSE FillsFor(f, k) = <<>>
        /\ \A p \in Below(prevDoc, <<>>) :
             (\A i \in 1..Len(Fills) : Fills[i].target # p)
             => KidAt(doc, p).value = KidAt(prevDoc, p).value

\* C20's case: the element filled comes, in its form, after an element
\* that matches the fieldName by a selector of lower priority and is left
\* as it was.
C20_LaterElementOfHigherPriorityFilled ==
    /\ op = "autofill"
    /\ \E i \in 1..Len(Fills) :
         \E p \in Below(prevDoc, Fills[i].form) :
             /\ FieldMatches(KidAt(prevDoc, p), Fills[i].name)
             /\ Fills[i].name # <<>>
             /\ DocIndex(prevDoc, Fills[i].form, p)
                  < DocIndex(prevDoc, Fills[i].form, Fills[i].target)
             /\ KidAt(doc, p).value = <<>>

\* C21: an entry whose value is empty or falsy fills nothing, in no form;
\* every fill of the call is for an entry with a value, the count is the
\* number of those fills, and a call whose values are all empty leaves the
\* document as it was and dispatches nothing.
C21_EmptyValueFillsNothing ==
    op = "autofill" =>
        /\ \A k \in 1..Len(lastArg) :
             EmptyValue(lastArg[k].value) =>
                 \A f \in FormSet(prevDoc) : FillsFor(f, k) = <<>>
        /\ filledCount = Len(Fills)
        /\ Len(events) = 2 * Len(Fills)
        /\ (\A k \in 1..Len(lastArg) : EmptyValue(lastArg[k].value))
             => (doc = prevDoc /\ events = <<>> /\ filledCount = 0)

\* C21's case: the mapping gives null for a name that a field of a form
\* matches, and an empty string for another such name.
C21_EmptyValuesForMatchingNames ==
    /\ op = "autofill"
    /\ Len(lastArg) = 2
    /\ \E i, j \in 1..2 :
         /\ lastArg[i].value = JsNull /\ lastArg[j].value = <<>>
         /\ \E f \in FormSet(prevDoc) : ChosenFor(prevDoc, f, lastArg[i].name) # NoPos
         /\ \E f \in FormSet(prevDoc) : ChosenFor(prevDoc, f, lastArg[j].name) # NoPos

\* The value the mapping of the last call gives for a name.
ValueFor(fieldName) ==
    lastArg[CHOOSE k \in 1..Len(lastArg) : lastArg[k].name = fieldName].value

\* C22: the events of a call come in pairs, one per fill: "input" then
\* "change" on the same element; both find the element holding the value
\* of the mapping, and both are dispatched before the fill is counted.
C22_AssignInputChangeCount ==
    op = "autofill" =>
        /\ Len(events) = 2 * filledCount
        /\ \A i \in 1..filledCount :
             LET in == events[2 * i - 1]
                 ch == events[2 * i]
             IN /\ in.type = "input" /\ ch.type = "change"
                /\ in.target = ch.target /\ in.form = ch.form /\ in.name = ch.name
                /\ in.value = ValueFor(in.name) /\ ch.value = ValueFor(in.name)
                /\ in.count = i - 1 /\ ch.count = i - 1

\* C22's case: a call with two fills, of two elements.
C22_TwoFillsInOneCall ==
    /\ op = "autofill"
    /\ filledCount = 2
    /\ events[1].target # events[3].target
    /\ events[3].value # <<>>

\* The place of a name in the mapping of the last call.
EntryIndex(fieldName) == CHOOSE k \in 1..Len(lastArg) : lastArg[k].name = fieldName

\* The fills of the last call whose target is the element at p.
FillsOf(p) == {i \in 1..Len(Fills) : Fills[i].target = p}

\* C29: the fills of one element within a form happen in the order of the
\* mapping, an element filled more than once ends with the value of the
\* last of its fills, and every fill is counted.
C29_LaterNameWinsBothCounted ==
    op = "autofill" =>
        /\ \A i, j \in 1..Len(Fills) :
             (i < j /\ Fills[i].target = Fills[j].target /\ Fills[i].form = Fills[j].form)
             => EntryIndex(Fills[i].name) < EntryIndex(Fills[j].name)
        /\ \A p \in Below(doc, <<>>) :
             FillsOf(p) # {} =>
                 LET last == CHOOSE i \in FillsOf(p) : \A j \in FillsOf(p) : j <= i
                 IN KidAt(doc, p).value = ValueFor(Fills[last].name)
        /\ filledCount = Len(Fills)

\* C29's case: two names with different values were resolved to one
\* element; it holds the value of the second name, and the call counted two
\* fills for one element changed.
C29_TwoNamesOneElement ==
    /\ op = "autofill"
    /\ Len(lastArg) = 2 /\ lastArg[1].value # lastArg[2].value
    /\ filledCount = 2
    /\ Fills[1].target = Fills[2].target
    /\ Fills[1].name = lastArg[1].name /\ Fills[2].name = lastArg[2].name
    /\ KidAt(doc, Fills[1].target).value = lastArg[2].value
    /\ Cardinality({p \in Below(doc, <<>>) : KidAt(doc, p).value # KidAt(prevDoc, p).value}) = 1

\* The elements of d that are inside a form.
InSomeForm(d) == UNION {Below(d, f) : f \in FormSet(d)}

\* C30: every event of a call has its target inside a form, an element
\* outside every form is after the call what it was before, and a call on a
\* document without a form returns 0 and changes nothing.
C30_OnlyFieldsOfFormsTouched ==
    op = "autofill" =>
        /\ \A k \in 1..Len(events) : events[k].target \in InSomeForm(prevDoc)
        /\ \A p \in Below(prevDoc, <<>>) \ InSomeForm(prevDoc) :
             KidAt(doc, p).value = KidAt(prevDoc, p).value
        /\ FormSet(prevDoc) = {} =>
             (filledCount = 0 /\ events = <<>> /\ doc = prevDoc)

\* C30's case: a name with a value matched a field inside a form, which was
\* filled, and an input outside every form, which was left.
C30_LooseFieldNextToFilledForm ==
    /\ op = "autofill"
    /\ filledCount >= 1
    /\ \E p \in Below(prevDoc, <<>>) \ InSomeForm(prevDoc) :
         /\ FieldMatches(KidAt(prevDoc, p), Fills[1].name)
         /\ KidAt(doc, p).value = <<>>
         /\ KidAt(doc, Fills[1].target).value # <<>>

(***************************************************************************)
(* The content script's messages: WebAIContentScript.setup, getPageContent, *)
(* sendPageData and refreshPageData.                                        *)
(*                                                                         *)
(* A message, a beforeunload or popstate event and a timer callback are    *)
(* tasks of the page's event loop: a task starts when no promise reaction  *)
(* is queued, and runs to its end.  A message is known by its number in    *)
(* the order of arrival.                                                    *)
(***************************************************************************)
\* Messages delivered to the listener.
MaxMsgs == 3
\* popstate events.
MaxPops == 1

\* An await expression ahead of this.db.update() in getPageContent.
AwaitsInGetPageContent(action) == IF action = "getPageContent" THEN 1 ELSE 0

\* The await expressions of an async method ahead of its core operation:
\* getPageContent, highlightOnPage and autofillForm hold none, the body of
\* each runs inside the call.
Awaits(action) == 0

\* new DomBridge().
NewBridge ==
    [bodyJson |-> Null, miniBodyJson |-> Null, flatContent |-> NullFlat,
     idPathMap |-> <<>>, threw |-> FALSE]

\* Lines 61-72: this.db.update(), then the getter miniBodyJson, which
\* parses and shortens once more and so draws the ids again.
GetPageContentB(b, snap, rnd1, rnd2) ==
    LET u == UpdateB(b, snap, rnd1)
    IN IF u.threw THEN u ELSE ShortenB(ParseB(u, snap), snap, rnd2)

\* The callback given to then() of the promise of message n (n = 0: the
\* promise of sendPageData).
Reaction(then, n) == [then |-> then, msg |-> n]

\* this.getPageContent().then(callback).  The body runs inside the call;
\* with this.db null, or a body that captures to nothing, it raises a
\* TypeError, the promise is rejected and the callback is never queued.
CallGetPageContent(then, n) ==
    IF db = "null"
    THEN /\ failed' = TRUE
         /\ UNCHANGED <<bridgeVars, microtasks, resolveVars>>
    ELSE /\ LET snap == domToJson(doc, <<>>)
            IN \E rnd1, rnd2 \in DrawsFor(snap) :
                 LET b == GetPageContentB(Bridge, snap, rnd1, rnd2)
                 IN /\ SetBridge(b)
                    /\ failed' = b.threw
                    /\ microtasks' = IF b.threw THEN microtasks
                                     ELSE Append(microtasks, Reaction(then, n))
         /\ NoteCompaction(TRUE)
         /\ UNCHANGED resolved

\* The event loop runs the queued promise reactions before the next task.
TaskMayStart == microtasks = <<>>

\* Lines 23-27: the listener on a getPageContent message.
GetPageContentMsg ==
    /\ TaskMayStart /\ Len(inbox) < MaxMsgs
    /\ inbox' = Append(inbox, "getPageContent")
    /\ pending' = pending \cup {Len(inbox) + 1}
    /\ IF Awaits("getPageContent") = 0
       THEN /\ CallGetPageContent("respond", Len(inbox) + 1)
            /\ op' = "getPageContent"
            /\ tasks' = tasks
       ELSE /\ tasks' = Append(tasks, Reaction("respond", Len(inbox) + 1))
            /\ UNCHANGED <<bridgeVars, microtasks, resolveVars, failed, op>>
    /\ nullArg' = FALSE
    /\ UNCHANGED <<doc, highlightVars, autofillVars, historyVars, db, sent, pops>>

\* Lines 28-32 and 84-89: the listener on a refreshPageContent message.
\* refreshPageData is no async function: a TypeError of its own update()
\* leaves the listener before `return true`.
RefreshPageContentMsg ==
    /\ TaskMayStart /\ Len(inbox) < MaxMsgs
    /\ inbox' = Append(inbox, "refreshPageContent")
    /\ db' = "bridge"
    /\ LET n == Len(inbox) + 1
           snap == domToJson(doc, <<>>)
       IN \E rnd0, rnd1, rnd2 \in DrawsFor(snap) :
            LET u == UpdateB(NewBridge, snap, rnd0)
                b == IF u.threw THEN u ELSE GetPageContentB(u, snap, rnd1, rnd2)
            IN /\ SetBridge(b)
               /\ failed' = b.threw
               /\ microtasks' = IF b.threw THEN microtasks
                                ELSE Append(microtasks, Reaction("respond", n))
               /\ pending' = IF u.threw THEN pending ELSE pending \cup {n}
    /\ NoteCompaction(TRUE)
    /\ op' = "refreshPageContent" /\ nullArg' = FALSE
    /\ UNCHANGED <<doc, highlightVars, autofillVars, historyVars, resolved, tasks,
                   sent, pops>>

\* The highlights of a highlightOnPage message.
MsgHighlights == { <<>>, << <<"a">> >> }

\* Lines 33-37 and 91-139: the listener on a highlightOnPage message, with
\* request.highlights a list or missing.
HighlightOnPageMsg ==
    /\ TaskMayStart /\ Len(inbox) < MaxMsgs
    /\ inbox' = Append(inbox, "highlightOnPage")
    /\ pending' = pending \cup {Len(inbox) + 1}
    /\ \/ \E highlights \in MsgHighlights :
            LET r == ForEachHighlight(RemoveHighlights(doc), highlights, 0, passNo + 1, <<>>)
            IN /\ doc' = r.doc
               /\ highlightedCount' = r.count
               /\ reqLog' = r.log
               /\ lastArg' = highlights
               /\ failed' = FALSE /\ nullArg' = FALSE
               /\ microtasks' = Append(microtasks, Reaction("respond", Len(inbox) + 1))
       \/ /\ doc' = RemoveHighlights(doc)
          /\ highlightedCount' = 0
          /\ reqLog' = <<>>
          /\ lastArg' = <<>>
          /\ failed' = TRUE /\ nullArg' = TRUE
          /\ microtasks' = microtasks
    /\ passNo' = passNo + 1
    /\ prevDoc' = doc
    /\ op' = "highlight"
    /\ UNCHANGED <<bridgeVars, autofillVars, doc0, resolveVars, db, tasks, sent, pops>>

\* The formData of an autofillForm message.
MsgFormDatas == { << [name |-> <<"a">>, value |-> <<"x">>] >> }

\* Lines 38-42 and 141-171: the listener on an autofillForm message, with
\* request.formData a mapping or missing.
AutofillFormMsg ==
    /\ TaskMayStart /\ Len(inbox) < MaxMsgs
    /\ inbox' = Append(inbox, "autofillForm")
    /\ pending' = pending \cup {Len(inbox) + 1}
    /\ \/ \E formData \in MsgFormDatas :
            LET r == ForEachForm([doc |-> doc, events |-> <<>>, filledCount |-> 0],
                                 FormsOf(doc), formData)
            IN /\ doc' = r.doc
               /\ events' = r.events
               /\ filledCount' = r.filledCount
               /\ lastArg' = formData
               /\ failed' = FALSE /\ nullArg' = FALSE
               /\ microtasks' = Append(microtasks, Reaction("respond", Len(inbox) + 1))
       \/ /\ doc' = doc
          /\ events' = <<>>
          /\ filledCount' = 0
          /\ lastArg' = <<>>
          /\ failed' = (FormsOf(doc) # <<>>) /\ nullArg' = TRUE
          /\ microtasks' = IF FormsOf(doc) # <<>> THEN microtasks
                           ELSE Append(microtasks, Reaction("respond", Len(inbox) + 1))
    /\ fillNo' = fillNo + 1
    /\ prevDoc' = doc
    /\ op' = "autofill"
    /\ UNCHANGED <<bridgeVars, highlightVars, doc0, resolveVars, db, tasks, sent, pops>>

\* Lines 50-53: the beforeunload listener (the page may stay: the unload
\* can be cancelled).
BeforeUnload ==
    /\ TaskMayStart /\ db = "bridge"
    /\ db' = "null"
    /\ UNCHANGED <<doc, bridgeVars, highlightVars, autofillVars, historyVars,
                   resolveVars, callVars, op, inbox, microtasks, tasks, sent,
                   pending, pops>>

\* Lines 56-58: the popstate listener sets a timer for sendPageData.
PopState ==
    /\ TaskMayStart /\ pops < MaxPops
    /\ pops' = pops + 1
    /\ tasks' = Append(tasks, Reaction("pageData", 0))
    /\ UNCHANGED <<doc, bridgeVars, highlightVars, autofillVars, historyVars,
                   resolveVars, callVars, op, db, inbox, microtasks, sent, pending>>

\* The callback of the oldest timer: line 57 and lines 74-81, sendPageData.
RunTask ==
    /\ TaskMayStart /\ tasks # <<>>
    /\ tasks' = Tail(tasks)
    /\ CallGetPageContent(Head(tasks).then, Head(tasks).msg)
    /\ op' = "getPageContent" /\ nullArg' = FALSE
    /\ UNCHANGED <<doc, highlightVars, autofillVars, historyVars, db, inbox, sent,
                   pending, pops>>

\* The oldest promise reaction: sendResponse (lines 25, 30, 35, 40) or
\* chrome.runtime.sendMessage (lines 76-79).
RunMicrotask ==
    /\ microtasks # <<>>
    /\ microtasks' = Tail(microtasks)
    /\ IF Head(microtasks).then = "respond"
       THEN /\ sent' = Append(sent, Head(microtasks).msg)
            /\ pending' = pending \ {Head(microtasks).msg}
       ELSE UNCHANGED <<sent, pending>>
    /\ UNCHANGED <<doc, bridgeVars, highlightVars, autofillVars, historyVars,
                   resolveVars, callVars, op, db, inbox, tasks, pops>>

\* The documents of the pages: a body that captures to nothing, a body
\* with text, and a body with a form.
MessageDocs ==
    { Elem("BODY", <<>>),
      Elem("BODY", <<TextNode(<<"a">>)>>),
      Elem("BODY", <<Elem("FORM", <<Field("INPUT", <<"a">>, <<>>, <<>>)>>)>>) }

\* The state after the constructor: setup made the DomBridge, added the
\* listeners and called sendPageData (lines 17-59).
InitMessages ==
    /\ doc \in MessageDocs
    /\ \E rnd1, rnd2 \in DrawsFor(domToJson(doc, <<>>)) :
         LET b == GetPageContentB(NewBridge, domToJson(doc, <<>>), rnd1, rnd2)
         IN /\ bodyJson = b.bodyJson /\ miniBodyJson = b.miniBodyJson
            /\ flatContent = b.flatContent /\ idPathMap = b.idPathMap
            /\ threw = b.threw /\ failed = b.threw
            /\ microtasks = IF b.threw THEN <<>> ELSE <<Reaction("pageData", 0)>>
    /\ op = "getPageContent"
    /\ highlightedCount = 0 /\ passNo = 0 /\ reqLog = <<>>
    /\ filledCount = 0 /\ events = <<>> /\ fillNo = 0
    /\ lastArg = <<>> /\ prevDoc = doc /\ doc0 = doc
    /\ resolved = NoPos /\ removedIds = {} /\ staleIds = {} /\ dirty = FALSE
    /\ nullArg = FALSE
    /\ db = "bridge" /\ inbox = <<>> /\ tasks = <<>>
    /\ sent = <<>> /\ pending = {} /\ pops = 0

NextMessages ==
    \/ GetPageContentMsg
    \/ RefreshPageContentMsg
    \/ HighlightOnPageMsg
    \/ AutofillFormMsg
    \/ BeforeUnload
    \/ PopState
    \/ RunTask
    \/ RunMicrotask

SpecMessages == InitMessages /\ [][NextMessages]_vars

\* The event loop runs every queued promise reaction when the running task
\* ends.  Nothing is assumed of the timers: no response waits for one.
FairSpecMessages == SpecMessages /\ WF_vars(RunMicrotask)

(***************************************************************************)
(* Claims about the content script's messages.                             *)
(***************************************************************************)
Answered(n) == \E k \in 1..Len(sent) : sent[k] = n

\* C25: no core operation of a handler is left for a later task, so that a
\* handler finds the document and the index as whole operations left them,
\* and the responses are sent in the order the messages arrived.
C25_HandlersCompleteResponsesInOrder ==
    /\ \A k \in 1..Len(tasks) : tasks[k].then = "pageData"
    /\ \A i, j \in 1..Len(sent) : i < j => sent[i] < sent[j]
    /\ \A n \in 1..Len(inbox) :
         Answered(n) \/ n \in pending \/ inbox[n] = "refreshPageContent"

\* C25's case: a highlightOnPage message, then a getPageContent message;
\* both were answered, in that order, and the capture holds the marker the
\* first one made.
C25_HighlightThenGetPageContent ==
    /\ Len(sent) >= 2
    /\ \E k \in 1..Len(sent) - 1 :
         /\ inbox[sent[k]] = "highlightOnPage"
         /\ inbox[sent[k + 1]] = "getPageContent"
         /\ sent[k + 1] = sent[k] + 1
    /\ MarkerCount(doc) = 1
    /\ NotNull(miniBodyJson) /\ miniBodyJson.tag = "span"

\* C28: every getPageContent message delivered is answered in the end, and
\* no message is answered twice.
C28_GetPageContentAnsweredOnce ==
    /\ \A n \in 1..MaxMsgs :
         (Len(inbox) >= n /\ inbox[n] = "getPageContent") ~> Answered(n)
    /\ [](\A i, j \in 1..Len(sent) : sent[i] = sent[j] => i = j)

(***************************************************************************)
(* Claims about failed calls.                                              *)
(***************************************************************************)
\* C18: when highlightOnPage or autofillForm raised, the document is the
\* document before the call.
C18_FailedCallLeavesDocument ==
    failed => doc = prevDoc

\* C19: autofillForm called with null raises, whatever the document.
C19_NullMappingFails ==
    (op = "autofill" /\ nullArg) => failed

====
